---- MODULE Spec2Model ----
(***************************************************************************)
(* project-stats: the claim-merging data model (Claims, ClaimsDict) and    *)
(* the concurrent multi-source fetch (get_source, get_project,             *)
(* get_projects, main) of src/project_stats.py.                            *)
(***************************************************************************)
EXTENDS Integers, Sequences, FiniteSets, TLC

VARIABLES
    _list,            \* SpecClaims: Claims._list of one Claims object
    added,            \* SpecClaims: the add(value, source) calls made so far
    _data,            \* SpecDict: ClaimsDict._data of one ClaimsDict
    calls,            \* SpecDict: the update(data, source) calls made so far
    lookup,           \* SpecLookup: the last claims[key] or claims.get(key)
                      \*             and what it gave
    projects_config,  \* Spec: project key -> the source kinds it configures
    args,             \* Spec: the parsed command line (query, list, short,
                      \*       sort, show_sources)
    ready,            \* Spec: the event loop's FIFO of tasks that can take a step
    pc,               \* Spec: project key -> position of its get_project coroutine
    task,             \* Spec: project key -> source kind -> state of its get_source
    outcome,          \* Spec: project key -> source kind -> what the adapter did
    claims,           \* Spec: project key -> _data of the project's ClaimsDict
    updates,          \* Spec: project key -> source kind -> number of update calls
    log,              \* Spec: the records written by logging.error
    finished,         \* Spec: the get_source tasks in the order their adapters ended
    mainpc,           \* Spec: position of main
    projects,         \* Spec: the dict returned by get_projects: project key ->
                      \*       the project whose ClaimsDict is stored under it
    main_keys,        \* Spec: the list keys of main
    printed,          \* Spec: the texts main has printed
    registry,         \* SpecCache: identifier -> what npm view does for it now
    now,              \* SpecCache: the clock, in seconds
    cache,            \* SpecCache: the live entries of the cache of get_npm
    cached_claims,    \* SpecCache: _data of the ClaimsDict of the last fetch
    direct_claims,    \* SpecCache: the same with get_npm called undecorated
    last_fetch        \* SpecCache: the identifier of the last fetch and
                      \*            whether the cache answered it

vars == <<_list, added, _data, calls, lookup, projects_config, args, ready, pc, task,
          outcome, claims, updates, log, finished, mainpc, projects, main_keys,
          printed, registry, now, cache, cached_claims, direct_claims,
          last_fetch>>

claimsVars == <<_list, added>>
dictVars == <<_data, calls, lookup>>
fetchVars == <<projects_config, args, ready, pc, task, outcome, claims,
               updates, log, finished, mainpc, projects, main_keys, printed>>
cacheVars == <<registry, now, cache, cached_claims, direct_claims, last_fetch>>

-----------------------------------------------------------------------------
(* Bounds of the model. *)

MaxAdds == 3
MaxUpdates == 3
MaxSources == 2
MaxPauses == 3
Pause == 1800

-----------------------------------------------------------------------------
(* Program constants. *)

SOURCES == <<"github", "gitlab", "local", "pypi", "bower", "npm", "travis">>

KEYS == <<"name", "description", "version", "homepage", "created", "updated",
          "license", "language", "tests", "commit_count", "file_count",
          "unstaged_changes", "uncommited_changes", "up_to_date",
          "contributors", "downloads", "open_issues", "open_pull_requests",
          "forks_count", "stargazers_count", "subscribers_count",
          "watchers_count", "cheesecake_index">>

Range(f) == {f[i] : i \in DOMAIN f}

\* the keys a ClaimsDict(KEYS) accepts: key in self._keys
KeySet == Range(KEYS)
SourceSet == Range(SOURCES)

-----------------------------------------------------------------------------
(* Python values.  t is the type, n the number of an int or a bool, s the  *)
(* text of a str.                                                          *)

PyNone == [t |-> "none", n |-> 0, s |-> ""]
PyStrV(text) == [t |-> "str", n |-> 0, s |-> text]
PyInt(k) == [t |-> "int", n |-> k, s |-> ""]
PyBool(b) == [t |-> "bool", n |-> IF b THEN 1 ELSE 0, s |-> ""]
PyEmptyList == [t |-> "list", n |-> 0, s |-> ""]
\* the dict PyPI gives for downloads, with k downloads in each period
PyDownloads(k) == [t |-> "dict", n |-> k, s |-> ""]

IsNumber(v) == v.t \in {"int", "bool"}

\* bool(value)
PyTruth(v) ==
    CASE v.t = "none" -> FALSE
      [] v.t = "str"  -> v.s # ""
      [] v.t = "list" -> FALSE
      [] v.t = "dict" -> TRUE
      [] OTHER        -> v.n # 0

\* a == b: a bool is an int (False == 0, True == 1); other types are equal
\* only to values of their own type.
PyEq(a, b) ==
    IF IsNumber(a) /\ IsNumber(b) THEN a.n = b.n ELSE a = b

Digit(d) ==
    CASE d = 0 -> "0" [] d = 1 -> "1" [] d = 2 -> "2" [] d = 3 -> "3"
      [] d = 4 -> "4" [] d = 5 -> "5" [] d = 6 -> "6" [] d = 7 -> "7"
      [] d = 8 -> "8" [] OTHER -> "9"

RECURSIVE Decimal(_)
Decimal(k) == IF k < 10 THEN Digit(k) ELSE Decimal(k \div 10) \o Digit(k % 10)

\* str(value)
PyStr(v) ==
    CASE v.t = "none" -> "None"
      [] v.t = "str"  -> v.s
      [] v.t = "list" -> "[]"
      [] v.t = "bool" -> IF v.n = 0 THEN "False" ELSE "True"
      [] v.t = "dict" -> "{'last_day': " \o Decimal(v.n)
                            \o ", 'last_month': " \o Decimal(v.n)
                            \o ", 'last_week': " \o Decimal(v.n) \o "}"
      [] OTHER        -> Decimal(v.n)

\* the strs of the model as sequences of characters, and ord(c)
Characters ==
    ("" :> <<>>) @@ ("1.0" :> <<"1", ".", "0">>) @@ ("2.0" :> <<"2", ".", "0">>)
    @@ ("x" :> <<"x">>) @@ ("foo" :> <<"f", "o", "o">>)
    @@ ("Bar" :> <<"B", "a", "r">>)
Ord == ("." :> 46) @@ ("0" :> 48) @@ ("1" :> 49) @@ ("2" :> 50) @@ ("B" :> 66)
       @@ ("a" :> 97) @@ ("f" :> 102) @@ ("o" :> 111) @@ ("r" :> 114)
       @@ ("x" :> 120)

\* a < b for two strs: the first differing character decides, a proper
\* prefix is less
RECURSIVE PyStrLt(_, _)
PyStrLt(a, b) ==
    IF b = <<>> THEN FALSE
    ELSE IF a = <<>> THEN TRUE
    ELSE IF Head(a) = Head(b) THEN PyStrLt(Tail(a), Tail(b))
    ELSE Ord[Head(a)] < Ord[Head(b)]

\* a < b: numbers by their value, strs by their characters; dicts, and
\* values of two unlike types, are unorderable (TypeError)
PyLt(a, b) ==
    IF IsNumber(a) /\ IsNumber(b) THEN [raised |-> FALSE, lt |-> a.n < b.n]
    ELSE IF a.t = "str" /\ b.t = "str"
    THEN [raised |-> FALSE, lt |-> PyStrLt(Characters[a.s], Characters[b.s])]
    ELSE [raised |-> TRUE, lt |-> FALSE]

\* a < b for two lists: the first position where the items are not equal
\* decides by the items' <; without one the shorter list is less
PyListLt(a, b) ==
    LET common == IF Len(a) < Len(b) THEN Len(a) ELSE Len(b)
        differ == {i \in 1..common : ~PyEq(a[i], b[i])}
    IN IF differ = {} THEN [raised |-> FALSE, lt |-> Len(a) < Len(b)]
       ELSE LET i == CHOOSE i \in differ : \A j \in differ : i <= j
            IN PyLt(a[i], b[i])

\* sep.join(parts)
RECURSIVE Join(_, _)
Join(sep, parts) ==
    IF parts = <<>> THEN ""
    ELSE IF Len(parts) = 1 THEN parts[1]
    ELSE parts[1] \o sep \o Join(sep, Tail(parts))

\* ' ' * k
RECURSIVE Spaces(_)
Spaces(k) == IF k = 0 THEN "" ELSE " " \o Spaces(k - 1)

-----------------------------------------------------------------------------
(* class Claims.  A Claims object is its _list: a sequence of entries      *)
(* [value, sources].                                                       *)

\* Claims._index with the values compared by identity (is) instead of ==
Claims_index_identity(list, key) ==
    IF \E i \in 1..Len(list) : key = list[i].value
    THEN CHOOSE i \in 1..Len(list) :
            /\ key = list[i].value
            /\ \A j \in 1..(i - 1) : key # list[j].value
    ELSE 0

\* Claims._index: the position of the first entry whose value equals key,
\* 0 standing for the KeyError.
Claims_index(list, key) ==
    IF \E i \in 1..Len(list) : PyEq(key, list[i].value)
    THEN CHOOSE i \in 1..Len(list) :
            /\ PyEq(key, list[i].value)
            /\ \A j \in 1..(i - 1) : ~PyEq(key, list[j].value)
    ELSE 0

\* the guard of Claims.add without its exception for zero: not value
Claims_add_skips_falsy(value) == ~PyTruth(value)

\* the guard of Claims.add as a test for None alone: value is None
Claims_add_skips_none(value) == value.t = "none"

\* the guard of Claims.add: not value and value != 0
Claims_add_skips(value) == ~PyTruth(value) /\ ~PyEq(value, PyInt(0))

\* Claims.add with a new entry for every call, beside the entry of the value
Claims_add_entry_always(list, value, source) ==
    IF Claims_add_skips(value) THEN list
    ELSE LET found == Claims_index(list, value)
             l2 == Append(list, [value |-> value, sources |-> <<source>>])
         IN IF found = 0 THEN l2
            ELSE [l2 EXCEPT ![found].sources = Append(@, source)]

\* Claims.add with the source put at the front of the entry's sources
Claims_add_source_first(list, value, source) ==
    IF Claims_add_skips(value) THEN list
    ELSE LET found == Claims_index(list, value)
             l2 == IF found = 0
                   THEN Append(list, [value |-> value, sources |-> <<>>])
                   ELSE list
             i == IF found = 0 THEN Len(l2) ELSE found
         IN [l2 EXCEPT ![i].sources = <<source>> \o @]

\* Claims.add with a new entry put at the front of the list
Claims_add_entry_first(list, value, source) ==
    IF Claims_add_skips(value) THEN list
    ELSE LET found == Claims_index(list, value)
             l2 == IF found = 0
                   THEN <<[value |-> value, sources |-> <<>>]>> \o list
                   ELSE list
             i == IF found = 0 THEN 1 ELSE found
         IN [l2 EXCEPT ![i].sources = Append(@, source)]

\* Claims.add
Claims_add(list, value, source) ==
    IF Claims_add_skips(value) THEN list
    ELSE LET found == Claims_index(list, value)
             l2 == IF found = 0
                   THEN Append(list, [value |-> value, sources |-> <<>>])
                   ELSE list
             \* i = -1 after the append: the last entry
             i == IF found = 0 THEN Len(l2) ELSE found
         IN [l2 EXCEPT ![i].sources = Append(@, source)]

\* Claims.values
Claims_values(list) == [i \in 1..Len(list) |-> list[i].value]

\* Claims.__lt__
Claims_lt(list, other) == PyListLt(Claims_values(list), Claims_values(other))

\* Claims.format
Claims_format(list, show_sources) ==
    LET _format_claim(e) ==
            IF show_sources
            THEN PyStr(e.value) \o " (" \o Join(", ", e.sources) \o ")"
            ELSE PyStr(e.value)
    IN Join("; ", [i \in 1..Len(list) |-> _format_claim(list[i])])

-----------------------------------------------------------------------------
(* Inputs of the Claims model. *)

Values == {PyNone, PyStrV(""), PyEmptyList, PyInt(0), PyBool(FALSE),
           PyInt(1), PyBool(TRUE), PyStrV("1.0"), PyStrV("2.0")}

SourceNames == {"A", "B"}

InitClaims == _list = <<>> /\ added = <<>>

\* one call claims.add(value, source)
Add(value, source) ==
    /\ Len(added) < MaxAdds
    /\ _list' = Claims_add(_list, value, source)
    /\ added' = Append(added, [value |-> value, source |-> source])
    /\ UNCHANGED <<dictVars, fetchVars, cacheVars>>

-----------------------------------------------------------------------------
(* class ClaimsDict.  A ClaimsDict is its _data: the dict source -> bucket *)
(* in insertion order (the order in which a Python dict iterates), a       *)
(* sequence of [source, data] whose data is the bucket, a function         *)
(* key -> value.                                                           *)

\* what an adapter hands to update: a dict, or None
PyDict(f) == [t |-> "dict", items |-> f]
NoneData == [t |-> "none", items |-> <<>>]

EmptyBucket == [k \in {} |-> PyNone]

\* ClaimsDict.__init__: short=9
ShortDefault == 9

HasSource(d, source) == \E i \in 1..Len(d) : d[i].source = source
SourceIndex(d, source) == CHOOSE i \in 1..Len(d) : d[i].source = source
Bucket(d, source) ==
    IF HasSource(d, source) THEN d[SourceIndex(d, source)].data ELSE EmptyBucket
Registered(d) == {d[i].source : i \in 1..Len(d)}

\* the bucket replaced by the new mapping instead of updated with it
DictMerge_replace(old, new) == new

\* dict.update(new) on the bucket old
DictMerge(old, new) ==
    [k \in (DOMAIN old) \cup (DOMAIN new) |->
        IF k \in DOMAIN new THEN new[k] ELSE old[k]]

\* ClaimsDict.update with the source registered before the keys are checked
ClaimsDict_update_register_first(d, data, source) ==
    IF data.t # "dict"
    THEN [raised |-> TRUE, error |-> "TypeError", _data |-> d]
    ELSE LET d2 == IF HasSource(d, source) THEN d
                   ELSE Append(d, [source |-> source, data |-> EmptyBucket])
             i == SourceIndex(d2, source)
         IN IF \E key \in DOMAIN data.items : key \notin KeySet
            THEN [raised |-> TRUE, error |-> "KeyError", _data |-> d2]
            ELSE [raised |-> FALSE, error |-> "",
                  _data |-> [d2 EXCEPT ![i].data = DictMerge(@, data.items)]]

\* ClaimsDict.update with the keys of _keys merged before the KeyError
ClaimsDict_update_merges_known(d, data, source) ==
    IF data.t # "dict"
    THEN [raised |-> TRUE, error |-> "TypeError", _data |-> d]
    ELSE LET known == [k \in (DOMAIN data.items) \cap KeySet |-> data.items[k]]
             d2 == IF HasSource(d, source) THEN d
                   ELSE Append(d, [source |-> source, data |-> EmptyBucket])
             i == SourceIndex(d2, source)
             merged == [d2 EXCEPT ![i].data = DictMerge(@, known)]
         IN IF \E key \in DOMAIN data.items : key \notin KeySet
            THEN [raised |-> TRUE, error |-> "KeyError", _data |-> merged]
            ELSE [raised |-> FALSE, error |-> "", _data |-> merged]

\* ClaimsDict.update with the bucket of the source put last at every call
ClaimsDict_update_moves_last(d, data, source) ==
    IF data.t # "dict"
    THEN [raised |-> TRUE, error |-> "TypeError", _data |-> d]
    ELSE IF \E key \in DOMAIN data.items : key \notin KeySet
    THEN [raised |-> TRUE, error |-> "KeyError", _data |-> d]
    ELSE [raised |-> FALSE, error |-> "",
          _data |-> Append(SelectSeq(d, LAMBDA b : b.source # source),
                           [source |-> source,
                            data |-> DictMerge(Bucket(d, source), data.items)])]

\* ClaimsDict.update: raised is set when the call ends in an exception
\* (iterating None is a TypeError, a key outside _keys a KeyError).
ClaimsDict_update(d, data, source) ==
    IF data.t # "dict"
    THEN [raised |-> TRUE, error |-> "TypeError", _data |-> d]
    ELSE IF \E key \in DOMAIN data.items : key \notin KeySet
    THEN [raised |-> TRUE, error |-> "KeyError", _data |-> d]
    ELSE LET d2 == IF HasSource(d, source) THEN d
                   ELSE Append(d, [source |-> source, data |-> EmptyBucket])
             i == SourceIndex(d2, source)
         IN [raised |-> FALSE, error |-> "",
             _data |-> [d2 EXCEPT ![i].data = DictMerge(@, data.items)]]

\* the loop of ClaimsDict.__getitem__ left at the first source that has key
getitem_scan_first(d, key, list) ==
    IF \E i \in 1..Len(d) : key \in DOMAIN d[i].data
    THEN LET i == CHOOSE i \in 1..Len(d) :
                    /\ key \in DOMAIN d[i].data
                    /\ \A j \in 1..(i - 1) : key \notin DOMAIN d[j].data
         IN Claims_add(list, d[i].data[key], d[i].source)
    ELSE list

\* the loop of ClaimsDict.__getitem__ over self._data.items()
RECURSIVE getitem_scan(_, _, _)
getitem_scan(d, key, list) ==
    IF d = <<>> THEN list
    ELSE getitem_scan(Tail(d), key,
            IF key \in DOMAIN Head(d).data
            THEN Claims_add(list, Head(d).data[key], Head(d).source)
            ELSE list)

\* ClaimsDict.__getitem__
ClaimsDict_getitem(d, key) ==
    IF key \notin KeySet THEN [raised |-> TRUE, claims |-> <<>>]
    ELSE [raised |-> FALSE, claims |-> getitem_scan(d, key, <<>>)]

\* ClaimsDict.get returning the default for a key that no source reports
ClaimsDict_get_default_if_empty(d, key) ==
    LET r == ClaimsDict_getitem(d, key)
    IN IF r.raised \/ r.claims = <<>> THEN [isdefault |-> TRUE, claims |-> <<>>]
       ELSE [isdefault |-> FALSE, claims |-> r.claims]

\* ClaimsDict.get: isdefault is set when the default is returned
ClaimsDict_get(d, key) ==
    LET r == ClaimsDict_getitem(d, key)
    IN IF r.raised THEN [isdefault |-> TRUE, claims |-> <<>>]
       ELSE [isdefault |-> FALSE, claims |-> r.claims]

\* self._keys[:self._short]
FirstKeys(k) == SubSeq(KEYS, 1, IF k < Len(KEYS) THEN k ELSE Len(KEYS))

\* the loop of ClaimsDict.format without its continue: a line for every key
format_lines_keeps_empty(d, keys, indent, show_sources) ==
    [i \in 1..Len(keys) |->
        Spaces(indent) \o keys[i] \o ": "
            \o Claims_format(ClaimsDict_get(d, keys[i]).claims, show_sources)]

\* the loop of ClaimsDict.format: one line for every key of keys, in their
\* order, whose formatted Claim is not the empty string
format_lines(d, keys, indent, show_sources) ==
    LET formated_value(key) ==
            Claims_format(ClaimsDict_get(d, key).claims, show_sources)
        kept == SelectSeq(keys, LAMBDA key : formated_value(key) # "")
    IN [i \in 1..Len(kept) |->
            Spaces(indent) \o kept[i] \o ": " \o formated_value(kept[i])]

\* ClaimsDict.format
ClaimsDict_format(d, short, indent, show_sources) ==
    LET keys == IF short THEN FirstKeys(ShortDefault) ELSE KEYS
    IN Join("\n", format_lines(d, keys, indent, show_sources))

-----------------------------------------------------------------------------
(* Inputs of the ClaimsDict model. *)

\* the mappings whose keys are among DOMAIN kv, each key k with a value of kv[k]
ReportsOver(kv) ==
    UNION { { f \in [dom -> UNION Range(kv)] : \A k \in dom : f[k] \in kv[k] }
            : dom \in SUBSET (DOMAIN kv) }

ValidReports ==
    ReportsOver(("version" :> {PyStrV("1.0"), PyNone, PyStrV("")})
             @@ ("stargazers_count" :> {PyInt(0), PyBool(FALSE)}))

\* mappings with a key that is not in KEYS
BadReports ==
    { ("bogus" :> PyStrV("x")),
      ("version" :> PyStrV("1.0")) @@ ("bogus" :> PyStrV("x")) }

DictReports == ValidReports \cup BadReports

DictSources == {"A", "B"}

NoLookup == [form |-> "none", key |-> "", seen |-> <<>>, raised |-> FALSE,
             isdefault |-> FALSE, claims |-> <<>>]

InitDict == _data = <<>> /\ calls = <<>> /\ lookup = NoLookup

\* one call claims.update(data, source)
Update(data, source) ==
    LET r == ClaimsDict_update(_data, PyDict(data), source)
    IN /\ Len(calls) < MaxUpdates
       /\ _data' = r._data
       /\ calls' = Append(calls, [data |-> data, source |-> source,
                                  before |-> _data, raised |-> r.raised])
       /\ UNCHANGED <<lookup, claimsVars, fetchVars, cacheVars>>

-----------------------------------------------------------------------------
(* The fetch: main, get_projects, get_project, get_source on one event     *)
(* loop.                                                                   *)

\* the keys of config['projects'], in the order of the configuration
ProjectKeys == <<"foo", "Bar">>

\* the source kinds the modelled configurations use
ConfigKinds == {"github", "local", "npm"}

\* the identifier a project configures for a source kind
Identifier == ("foo" :> "u1") @@ ("Bar" :> "u2")

\* str.lower: the lower case of the upper-case letters of the model
LowerOf == ("A" :> "a") @@ ("B" :> "b") @@ ("F" :> "f") @@ ("O" :> "o")
           @@ ("R" :> "r") @@ ("X" :> "x")
PyLower(chars) ==
    [i \in 1..Len(chars) |->
        IF chars[i] \in DOMAIN LowerOf THEN LowerOf[chars[i]] ELSE chars[i]]

\* a in b, for two strs
PyIn(a, b) == \E i \in 0..(Len(b) - Len(a)) : SubSeq(b, i + 1, i + Len(a)) = a

\* args.query and args.sort: None, or the str given
NoQuery == [given |-> FALSE, text |-> <<>>]
Query(text) == [given |-> TRUE, text |-> text]
NoSort == [given |-> FALSE, key |-> ""]
SortBy(key) == [given |-> TRUE, key |-> key]

\* the filter of main without lower() on the query
SelectKeys_query_as_given(query) ==
    IF query.given
    THEN SelectSeq(ProjectKeys,
            LAMBDA k : PyIn(query.text, PyLower(Characters[k])))
    ELSE ProjectKeys

\* main: keys = [k for k in keys if args.query.lower() in k.lower()]
SelectKeys(query) ==
    IF query.given
    THEN SelectSeq(ProjectKeys,
            LAMBDA k : PyIn(PyLower(query.text), PyLower(Characters[k])))
    ELSE ProjectKeys

\* get_local runs its git subprocesses with subprocess.check_output and
\* never suspends; the other adapters wait for a request or a subprocess.
Synchronous == {"local"}

\* get_npm returns None when npm exits with a non-zero status
ReturnsNone == {"npm"}

AdapterReports ==
    { ("version" :> PyStrV("1.0")),
      ("version" :> PyStrV("2.0")),
      ("name" :> PyStrV("foo")),
      ("version" :> PyStrV("1.0")) @@ ("bogus" :> PyStrV("x")) }

\* what get_pypi returns: the version and the downloads of the package (a
\* dict of counts), or None for both
PypiReports ==
    { ("version" :> PyStrV("1.0")) @@ ("downloads" :> PyDownloads(1)),
      ("version" :> PyStrV("2.0")) @@ ("downloads" :> PyDownloads(2)),
      ("version" :> PyNone) @@ ("downloads" :> PyNone) }

\* what get_bower_info returns: None when bower exits with a non-zero
\* status, or what bower info prints
BowerInfos ==
    { NoneData,
      PyDict(("name" :> PyStrV("foo")) @@ ("version" :> PyStrV("1.0"))),
      PyDict("name" :> PyStrV("foo")) }

\* the keys get_bower reads from what get_bower_info returns
BowerKeys == {"name", "version", "homepage", "description", "license"}

\* get_bower once get_bower_info has returned data
get_bower(data) ==
    IF data = NoneData THEN PyDict(EmptyBucket)
    ELSE PyDict([k \in BowerKeys |->
                    IF k \in DOMAIN data.items THEN data.items[k] ELSE PyNone])

\* what an adapter can do: raise, or return a mapping (or None)
AdapterOutcomes(kind) ==
    {[raises |-> TRUE, data |-> NoneData]}
    \cup (IF kind = "bower"
          THEN {[raises |-> FALSE, data |-> get_bower(data)] : data \in BowerInfos}
          ELSE {[raises |-> FALSE, data |-> PyDict(r)] :
                  r \in IF kind = "pypi" THEN PypiReports ELSE AdapterReports})
    \cup (IF kind \in ReturnsNone
          THEN {[raises |-> FALSE, data |-> NoneData]} ELSE {})

NoOutcome == [raises |-> FALSE, data |-> PyDict(EmptyBucket)]

RECURSIVE SumCard(_, _)
SumCard(f, S) ==
    IF S = {} THEN 0
    ELSE LET x == CHOOSE y \in S : TRUE
         IN Cardinality(f[x]) + SumCard(f, S \ {x})

Configs ==
    { c \in [Range(ProjectKeys) -> SUBSET ConfigKinds] :
        SumCard(c, Range(ProjectKeys)) <= MaxSources }

ProjectTask(p) == [p |-> p, s |-> ""]
SourceTask(p, s) == [p |-> p, s |-> s]

\* the tasks gather makes of a sequence of coroutines, in their order
RECURSIVE SelectSeq2(_, _)
SelectSeq2(seq, S) ==
    IF seq = <<>> THEN <<>>
    ELSE IF Head(seq) \in S THEN <<Head(seq)>> \o SelectSeq2(Tail(seq), S)
    ELSE SelectSeq2(Tail(seq), S)

\* get_source without its try/except: the exception leaves get_source
get_source_no_except(d, lg, p, kind, o) ==
    LET r == ClaimsDict_update(d, o.data, kind)
        failed == o.raises \/ r.raised
    IN [claims |-> IF o.raises THEN d ELSE r._data,
        log |-> lg,
        called |-> ~o.raises,
        raised |-> failed]

\* get_source with an update of the Claim Set in its except branch too
get_source_update_in_except(d, lg, p, kind, o) ==
    LET data == IF o.raises THEN PyDict(EmptyBucket) ELSE o.data
        r == ClaimsDict_update(d, data, kind)
        failed == o.raises \/ r.raised
        e == IF o.raises THEN "Exception" ELSE r.error
    IN [claims |-> r._data,
        log |-> IF failed
                THEN Append(lg, [key |-> kind, source |-> Identifier[p],
                                 error |-> e])
                ELSE lg,
        called |-> TRUE,
        raised |-> FALSE]

\* the try/except of get_source once the adapter has its outcome o
get_source(d, lg, p, kind, o) ==
    LET r == ClaimsDict_update(d, o.data, kind)
        failed == o.raises \/ r.raised
        e == IF o.raises THEN "Exception" ELSE r.error
    IN [claims |-> IF o.raises THEN d ELSE r._data,
        log |-> IF failed
                THEN Append(lg, [key |-> kind, source |-> Identifier[p],
                                 error |-> e])
                ELSE lg,
        called |-> ~o.raises,
        raised |-> FALSE]

\* the command lines that ask for the full reports of all projects
ArgsReport ==
    [query : {NoQuery}, list : {FALSE}, short : BOOLEAN, sort : {NoSort},
     show_sources : BOOLEAN]

\* main up to its call of get_projects and get_projects up to aiorun (for
\* a bare list of the keys, main up to its loop over the keys), for a
\* command line of argset and a configuration of configs
InitMain(argset, configs) ==
    /\ args \in argset
    /\ \E config \in configs :
        LET selected == SelectKeys(args.query)
            bare_list == args.list /\ ~args.sort.given
            fetched == IF bare_list THEN {} ELSE Range(selected)
        IN /\ main_keys = selected
           /\ projects_config = [p \in fetched |-> config[p]]
           /\ ready = IF bare_list THEN <<>>
                      ELSE [i \in 1..Len(selected) |-> ProjectTask(selected[i])]
           /\ pc = [p \in fetched |-> "created"]
           /\ task = [p \in fetched |-> [s \in SourceSet |-> "none"]]
           /\ outcome = [p \in fetched |-> [s \in SourceSet |-> NoOutcome]]
           /\ claims = [p \in fetched |-> <<>>]
           /\ updates = [p \in fetched |-> [s \in SourceSet |-> 0]]
           /\ mainpc = IF ~bare_list THEN "fetching"
                       ELSE IF selected = <<>> THEN "done" ELSE "printing"
    /\ log = <<>>
    /\ finished = <<>>
    /\ projects = <<>>
    /\ printed = <<>>

InitFetch == InitMain(ArgsReport, Configs)

\* the command line without arguments
ArgsNone ==
    {[query |-> NoQuery, list |-> FALSE, short |-> FALSE, sort |-> NoSort,
      show_sources |-> FALSE]}

InitPlain == InitMain(ArgsNone, Configs)

\* the configurations of the adapters that run a subprocess
SubprocessConfigs ==
    { c \in [Range(ProjectKeys) -> SUBSET {"bower", "npm"}] :
        SumCard(c, Range(ProjectKeys)) <= MaxSources }

InitSubprocess == InitMain(ArgsNone, SubprocessConfigs)

\* the command lines with a query, a sort key or the list option
Queries ==
    {NoQuery, Query(<<>>), Query(<<"o">>), Query(<<"B", "A">>),
     Query(<<"a", "r">>), Query(<<"x">>)}
Sorts == {NoSort, SortBy("version"), SortBy("downloads")}
ArgsMain ==
    [query : Queries, list : BOOLEAN, short : {FALSE}, sort : Sorts,
     show_sources : {FALSE}]

\* the configurations in which a project has no source, github or pypi
MainConfigs == [Range(ProjectKeys) -> {{}, {"github"}, {"pypi"}}]

InitOptions == InitMain(ArgsMain, MainConfigs)

\* get_source with one ClaimsDict shared by all the projects
FinishSource_shared_claims(p, s, o) ==
    LET r == get_source(claims[p], log, p, s, o)
    IN /\ outcome' = [outcome EXCEPT ![p][s] = o]
       /\ claims' = [q \in DOMAIN claims |-> r.claims]
       /\ log' = r.log
       /\ finished' = Append(finished, SourceTask(p, s))
       /\ updates' = [updates EXCEPT ![p][s] = @ + (IF r.called THEN 1 ELSE 0)]
       /\ task' = [task EXCEPT ![p][s] = IF r.raised THEN "raised" ELSE "done"]

\* get_source from the outcome of its adapter to its end
FinishSource(p, s, o) ==
    LET r == get_source(claims[p], log, p, s, o)
    IN /\ outcome' = [outcome EXCEPT ![p][s] = o]
       /\ claims' = [claims EXCEPT ![p] = r.claims]
       /\ log' = r.log
       /\ finished' = Append(finished, SourceTask(p, s))
       /\ updates' = [updates EXCEPT ![p][s] = @ + (IF r.called THEN 1 ELSE 0)]
       /\ task' = [task EXCEPT ![p][s] = IF r.raised THEN "raised" ELSE "done"]

\* the first step of the task of get_project: to the yield from gather
StartProject(p) ==
    /\ ready # <<>> /\ Head(ready) = ProjectTask(p)
    /\ pc[p] = "created"
    /\ LET futures == SelectSeq2(SOURCES, projects_config[p])
       IN /\ claims' = [claims EXCEPT ![p] = <<>>]
          /\ task' = [task EXCEPT ![p] =
                        [s \in SourceSet |->
                            IF s \in Range(futures) THEN "scheduled" ELSE "none"]]
          /\ ready' = Tail(ready)
                        \o [i \in 1..Len(futures) |-> SourceTask(p, futures[i])]
          \* gather of no futures is done at once
          /\ pc' = [pc EXCEPT ![p] = IF futures = <<>> THEN "returned"
                                     ELSE "gathering"]
    /\ UNCHANGED <<projects_config, args, outcome, updates, log, finished, mainpc,
                   projects, main_keys, printed, claimsVars, dictVars, cacheVars>>

\* the first step of the task of get_source: to the yield from future
StartSource(p, s) ==
    /\ ready # <<>> /\ Head(ready) = SourceTask(p, s)
    /\ task[p][s] = "scheduled"
    /\ ready' = Tail(ready)
    /\ IF s \in Synchronous
       THEN \E o \in AdapterOutcomes(s) : FinishSource(p, s, o)
       ELSE /\ task' = [task EXCEPT ![p][s] = "waiting"]
            /\ UNCHANGED <<outcome, claims, log, finished, updates>>
    /\ UNCHANGED <<projects_config, args, pc, mainpc, projects, main_keys, printed,
                   claimsVars, dictVars, cacheVars>>

\* the adapter of a waiting get_source ends and get_source resumes
CompleteSource(p, s) ==
    /\ task[p][s] = "waiting"
    /\ \E o \in AdapterOutcomes(s) : FinishSource(p, s, o)
    /\ UNCHANGED <<projects_config, args, ready, pc, mainpc, projects,
                   main_keys, printed, claimsVars, dictVars, cacheVars>>

\* get_project returning as soon as one of its children is done
ReturnProject_first_completed(p) ==
    /\ pc[p] = "gathering"
    /\ \E s \in projects_config[p] : task[p][s] = "done"
    /\ pc' = [pc EXCEPT ![p] = "returned"]
    /\ UNCHANGED <<projects_config, args, ready, task, outcome, claims,
                   updates, log, finished, mainpc, projects, main_keys, printed,
                   claimsVars, dictVars, cacheVars>>

\* gather ends, when every child is done or as soon as one has raised:
\* get_project returns claims, or raises what the child raised
ReturnProject(p) ==
    /\ pc[p] = "gathering"
    /\ LET mine == projects_config[p]
           child_raised == \E s \in mine : task[p][s] = "raised"
       IN /\ child_raised \/ \A s \in mine : task[p][s] = "done"
          /\ pc' = [pc EXCEPT ![p] = IF child_raised THEN "raised"
                                     ELSE "returned"]
    /\ UNCHANGED <<projects_config, args, ready, task, outcome, claims,
                   updates, log, finished, mainpc, projects, main_keys, printed,
                   claimsVars, dictVars, cacheVars>>

\* get_projects returning as soon as one get_project has returned
get_projects_first_completed ==
    /\ mainpc = "fetching"
    /\ \E p \in DOMAIN pc : pc[p] = "returned"
    /\ mainpc' = "sorting"
    /\ projects' = [k \in {p \in DOMAIN pc : pc[p] = "returned"} |-> k]
    /\ UNCHANGED <<projects_config, args, ready, pc, task, outcome, claims,
                   updates, log, finished, main_keys, printed, claimsVars,
                   dictVars, cacheVars>>

\* position of an item in a list without repeated items
IndexIn(list, x) == CHOOSE i \in 1..Len(list) : list[i] = x

\* get_projects: aiorun returns the list of the Claim Sets and the dict is
\* built from it, or aiorun raises what a get_project raised
get_projects ==
    /\ mainpc = "fetching"
    /\ LET project_raised == \E p \in DOMAIN pc : pc[p] = "raised"
           \* projects_config.keys(), and the results of gather in that order
           config_keys == main_keys
           projects_list == [i \in 1..Len(config_keys) |-> config_keys[i]]
           \* every get_project returns its ClaimsDict, never None
           not_none == {i \in 1..Len(config_keys) :
                            pc[projects_list[i]] = "returned"}
       IN /\ project_raised \/ \A p \in DOMAIN pc : pc[p] = "returned"
          /\ mainpc' = IF project_raised THEN "crashed" ELSE "sorting"
          /\ projects' = IF project_raised THEN projects
                         ELSE [k \in {config_keys[i] : i \in not_none} |->
                                    projects_list[IndexIn(config_keys, k)]]
    /\ UNCHANGED <<projects_config, args, ready, pc, task, outcome, claims,
                   updates, log, finished, main_keys, printed, claimsVars,
                   dictVars, cacheVars>>

\* list.sort of the project keys ks by the Claims key_of[k]: an item goes
\* behind the items it is not less than, and an exception of < ends the sort
RECURSIVE list_sort(_, _, _)
list_sort(ks, key_of, sorted) ==
    IF ks = <<>> THEN [raised |-> FALSE, list |-> sorted]
    ELSE LET pivot == Head(ks)
             lt(i) == Claims_lt(key_of[pivot], key_of[sorted[i]])
             at == Cardinality({i \in 1..Len(sorted) : ~lt(i).lt})
         IN IF \E i \in 1..Len(sorted) : lt(i).raised
            THEN [raised |-> TRUE, list |-> sorted \o ks]
            ELSE list_sort(Tail(ks), key_of,
                           SubSeq(sorted, 1, at) \o <<pivot>>
                               \o SubSeq(sorted, at + 1, Len(sorted)))

\* main between get_projects and its loop: the keys that are in projects,
\* sorted by projects[k][args.sort] when a sort key is given
main_sort ==
    /\ mainpc = "sorting"
    /\ LET present == SelectSeq(main_keys, LAMBDA k : k \in DOMAIN projects)
           key(k) == ClaimsDict_getitem(claims[projects[k]], args.sort.key)
           key_raised == \E k \in Range(present) : key(k).raised
           r == IF ~args.sort.given THEN [raised |-> FALSE, list |-> present]
                ELSE IF key_raised THEN [raised |-> TRUE, list |-> present]
                ELSE list_sort(present,
                               [k \in Range(present) |-> key(k).claims], <<>>)
       IN /\ main_keys' = r.list
          /\ mainpc' = IF r.raised THEN "crashed"
                       ELSE IF r.list = <<>> THEN "done" ELSE "printing"
    /\ UNCHANGED <<projects_config, args, ready, pc, task, outcome, claims,
                   updates, log, finished, projects, printed, claimsVars,
                   dictVars, cacheVars>>

\* main: one turn of its loop over the keys, the print of one project
main ==
    /\ mainpc = "printing"
    /\ Len(printed) < Len(main_keys)
    /\ LET key == main_keys[Len(printed) + 1]
           text == IF args.list /\ ~args.sort.given THEN key
                   ELSE IF args.list
                   THEN key \o " "
                          \o Claims_format(
                                ClaimsDict_getitem(claims[projects[key]],
                                                   args.sort.key).claims,
                                FALSE)
                   ELSE key \o "\n"
                          \o ClaimsDict_format(claims[projects[key]], args.short,
                                               2, args.show_sources)
                          \o "\n"
       IN printed' = Append(printed, text)
    /\ mainpc' = IF Len(printed') = Len(main_keys) THEN "done" ELSE "printing"
    /\ UNCHANGED <<projects_config, args, ready, pc, task, outcome, claims,
                   updates, log, finished, projects, main_keys, claimsVars,
                   dictVars, cacheVars>>

Next ==
    \/ \E p \in DOMAIN pc : StartProject(p)
    \/ \E p \in DOMAIN pc, s \in SourceSet : StartSource(p, s)
    \/ \E p \in DOMAIN pc, s \in SourceSet : CompleteSource(p, s)
    \/ \E p \in DOMAIN pc : ReturnProject(p)
    \/ get_projects
    \/ main_sort
    \/ main

-----------------------------------------------------------------------------
(* The specifications. *)

IdleClaims == _list = <<>> /\ added = <<>>
IdleDict == _data = <<>> /\ calls = <<>> /\ lookup = NoLookup
IdleFetch ==
    /\ projects_config = [p \in Range(ProjectKeys) |-> {}]
    /\ args = [query |-> NoQuery, list |-> FALSE, short |-> FALSE,
               sort |-> NoSort, show_sources |-> TRUE]
    /\ ready = <<>>
    /\ pc = [p \in Range(ProjectKeys) |-> "created"]
    /\ task = [p \in Range(ProjectKeys) |-> [s \in SourceSet |-> "none"]]
    /\ outcome = [p \in Range(ProjectKeys) |-> [s \in SourceSet |-> NoOutcome]]
    /\ claims = [p \in Range(ProjectKeys) |-> <<>>]
    /\ updates = [p \in Range(ProjectKeys) |-> [s \in SourceSet |-> 0]]
    /\ log = <<>>
    /\ finished = <<>>
    /\ mainpc = "idle"
    /\ projects = <<>>
    /\ main_keys = <<>>
    /\ printed = <<>>

-----------------------------------------------------------------------------
(* The cache in front of get_npm. *)

\* ttl=3600 of async_cached('xi-project-npm', ttl=3600)
npm_ttl == 3600

\* the identifiers get_npm is called with
Identifiers == Range(Identifier)

\* what npm view can do for a package: fail to start (an exception), exit
\* with a non-zero status (get_npm returns None), or print a version
NpmOutcomes ==
    { [raises |-> TRUE, data |-> NoneData],
      [raises |-> FALSE, data |-> NoneData],
      [raises |-> FALSE, data |-> PyDict("version" :> PyStrV("1.0"))],
      [raises |-> FALSE, data |-> PyDict("version" :> PyStrV("2.0"))] }

NoFetch == [name |-> "", hit |-> FALSE]

\* an entry of the cache answers until it expires
Live(entries, t, key) == key \in DOMAIN entries /\ t < entries[key].expires

\* a call of a function under a cache that is keyed by the request parameters
\* and expires after ttl: a live entry answers, otherwise the function is
\* called with outcome o and what it returns is stored; an exception is not
\* stored, and whether a returned None is stored is keeps_none
async_cached(entries, t, key, o, keeps_none) ==
    IF Live(entries, t, key)
    THEN [result |-> [raises |-> FALSE, data |-> entries[key].value],
          entries |-> entries, hit |-> TRUE]
    ELSE [result |-> o,
          entries |-> IF o.raises \/ (o.data = NoneData /\ ~keeps_none)
                      THEN [k \in DOMAIN entries \ {key} |-> entries[k]]
                      ELSE [k \in DOMAIN entries \cup {key} |->
                              IF k = key
                              THEN [value |-> o.data, expires |-> t + npm_ttl]
                              ELSE entries[k]],
          hit |-> FALSE]

\* get_npm under a cache with one entry for all packages
get_npm_one_entry(entries, t, name, o, keeps_none) ==
    async_cached(entries, t, "", o, keeps_none)

\* get_npm(name) under its decorator
get_npm(entries, t, name, o, keeps_none) ==
    async_cached(entries, t, name, o, keeps_none)

\* the _data of a fresh ClaimsDict after get_source('npm', ...) with outcome o
ClaimSetOf(p, o) == get_source(<<>>, <<>>, p, "npm", o).claims

InitCache ==
    /\ registry \in [Identifiers -> NpmOutcomes]
    /\ now = 0
    /\ cache = <<>>
    /\ cached_claims = <<>>
    /\ direct_claims = <<>>
    /\ last_fetch = NoFetch

\* get_source('npm', ...) of project p on a fresh ClaimsDict, once with
\* get_npm as decorated and once with every call going to npm
FetchNpm(p, keeps_none) ==
    LET name == Identifier[p]
        r == get_npm(cache, now, name, registry[name], keeps_none)
    IN /\ cache' = r.entries
       /\ cached_claims' = ClaimSetOf(p, r.result)
       /\ direct_claims' = ClaimSetOf(p, registry[name])
       /\ last_fetch' = [name |-> name, hit |-> r.hit]
       /\ UNCHANGED <<registry, now, claimsVars, dictVars, fetchVars>>

\* the registry starts to answer o for a package
Publish(name, o) ==
    /\ registry[name] # o
    /\ registry' = [registry EXCEPT ![name] = o]
    /\ UNCHANGED <<now, cache, cached_claims, direct_claims, last_fetch,
                   claimsVars, dictVars, fetchVars>>

\* time passes; the entries that have expired are gone
Wait ==
    /\ now < MaxPauses * Pause
    /\ now' = now + Pause
    /\ cache' = [k \in {e \in DOMAIN cache : now' < cache[e].expires} |->
                   cache[k]]
    /\ UNCHANGED <<registry, cached_claims, direct_claims, last_fetch,
                   claimsVars, dictVars, fetchVars>>

NextCache ==
    \/ \E p \in Range(ProjectKeys), keeps_none \in BOOLEAN :
           FetchNpm(p, keeps_none)
    \/ \E name \in Identifiers, o \in NpmOutcomes : Publish(name, o)
    \/ Wait

IdleCache ==
    /\ registry = [name \in Identifiers |-> NoOutcome]
    /\ now = 0
    /\ cache = <<>>
    /\ cached_claims = <<>>
    /\ direct_claims = <<>>
    /\ last_fetch = NoFetch

NextClaims == \E value \in Values, source \in SourceNames : Add(value, source)

\* one call claims.update(data, source), the calls not recorded
UpdateAny(data, source) ==
    /\ _data' = ClaimsDict_update(_data, PyDict(data), source)._data
    /\ UNCHANGED <<calls, lookup, claimsVars, fetchVars, cacheVars>>

\* the keys offered to update one at a time: those of KEYS, the name
\* uncommitted_changes and a name that is no attribute
OfferedKeys == KeySet \cup {"uncommitted_changes", "bogus"}

\* one call claims.update({key: True}, 'local')
NextKeys == \E key \in OfferedKeys : Update(key :> PyBool(TRUE), "local")

\* mappings of three sources that agree and disagree about the version
OrderReports ==
    { ("version" :> PyStrV("1.0")),
      ("version" :> PyStrV("2.0")),
      ("version" :> PyNone),
      ("name" :> PyStrV("foo")) }

OrderSources == {"A", "B", "C"}

NextOrder == \E data \in OrderReports, source \in OrderSources : Update(data, source)

\* the keys looked up: three of KEYS, of which name is never reported, the
\* name uncommitted_changes and a name that is no attribute
LookupKeys == {"version", "stargazers_count", "name", "uncommitted_changes",
               "bogus"}

\* the mappings of the updates between the lookups
LookupReports ==
    { ("version" :> PyStrV("1.0")),
      ("version" :> PyNone),
      ("stargazers_count" :> PyInt(0)),
      ("bogus" :> PyStrV("x")) }

\* claims[key]
Index(key) ==
    LET r == ClaimsDict_getitem(_data, key)
    IN /\ lookup' = [form |-> "index", key |-> key, seen |-> _data,
                     raised |-> r.raised, isdefault |-> FALSE,
                     claims |-> r.claims]
       /\ UNCHANGED <<_data, calls, claimsVars, fetchVars, cacheVars>>

\* claims.get(key, default)
Get(key) ==
    LET r == ClaimsDict_get(_data, key)
    IN /\ lookup' = [form |-> "get", key |-> key, seen |-> _data,
                     raised |-> FALSE, isdefault |-> r.isdefault,
                     claims |-> r.claims]
       /\ UNCHANGED <<_data, calls, claimsVars, fetchVars, cacheVars>>

NextLookup ==
    \/ \E data \in LookupReports, source \in DictSources : UpdateAny(data, source)
    \/ \E key \in LookupKeys : Index(key)
    \/ \E key \in LookupKeys : Get(key)

\* mappings with values that add records and values that add none
RecordReports ==
    { ("version" :> PyStrV("1.0")),
      ("version" :> PyStrV("2.0")),
      ("version" :> PyStrV("")),
      ("version" :> PyNone),
      ("stargazers_count" :> PyInt(0)),
      ("stargazers_count" :> PyBool(FALSE)) }

NextRecord ==
    \E data \in RecordReports, source \in OrderSources : UpdateAny(data, source)

NextStore == \E data \in DictReports, source \in DictSources : UpdateAny(data, source)

NextDict == \E data \in DictReports, source \in DictSources : Update(data, source)

Init == InitFetch /\ IdleClaims /\ IdleDict /\ IdleCache
InitL == InitPlain /\ IdleClaims /\ IdleDict /\ IdleCache
InitM == InitOptions /\ IdleClaims /\ IdleDict /\ IdleCache
InitC == InitClaims /\ IdleDict /\ IdleFetch /\ IdleCache
InitD == InitDict /\ IdleClaims /\ IdleFetch /\ IdleCache
InitS == InitSubprocess /\ IdleClaims /\ IdleDict /\ IdleCache
InitN == InitCache /\ IdleClaims /\ IdleDict /\ IdleFetch

\* a run of the program
Spec == Init /\ [][Next]_vars

\* the steps of run_until_complete: the event loop runs every callback
\* that is ready, and returns when the gather of the projects is done.
\* Nothing makes an adapter end: CompleteSource is a step of the network
\* or of the subprocess.
LoopStep ==
    \/ \E p \in DOMAIN pc : StartProject(p)
    \/ \E p \in DOMAIN pc, s \in SourceSet : StartSource(p, s)
    \/ \E p \in DOMAIN pc : ReturnProject(p)
    \/ get_projects

\* a run of the program (without arguments) whose event loop keeps running
FairSpec == InitL /\ [][Next]_vars /\ WF_vars(LoopStep)

\* a run of the program with a query, a sort key or the list option
SpecMain == InitM /\ [][Next]_vars

\* a Claims object under a sequence of add calls
SpecClaims == InitC /\ [][NextClaims]_vars

\* a ClaimsDict under any number of update calls
SpecStore == InitD /\ [][NextStore]_vars

\* a run of the program over the bower and npm adapters
SpecSubprocess == InitS /\ [][Next]_vars

\* a ClaimsDict under a sequence of update calls, with their history
SpecDict == InitD /\ [][NextDict]_vars

\* a ClaimsDict under a sequence of update calls of one key each
SpecKeys == InitD /\ [][NextKeys]_vars

\* a ClaimsDict under update calls and lookups
SpecLookup == InitD /\ [][NextLookup]_vars

\* a ClaimsDict of three sources under any number of valid update calls
SpecRecord == InitD /\ [][NextRecord]_vars

\* a ClaimsDict under update calls of three sources
SpecOrder == InitD /\ [][NextOrder]_vars

\* fetches through the cached get_npm while the registry changes and time
\* passes
SpecCache == InitN /\ [][NextCache]_vars

-----------------------------------------------------------------------------
(* Properties of Claims (SpecClaims). *)

\* None, the empty string and the empty collection: "no claim"
IsEmptyValue(v) == v \in {PyNone, PyStrV(""), PyEmptyList}

AddedValues == [i \in 1..Len(added) |-> added[i].value]

\* the non-empty values of seq from position i on, each kept where it is
\* first seen (values equal in Python's sense are one value)
RECURSIVE FirstSeen(_, _)
FirstSeen(seq, i) ==
    IF i > Len(seq) THEN <<>>
    ELSE IF /\ ~IsEmptyValue(seq[i])
            /\ \A j \in 1..(i - 1) : ~PyEq(seq[j], seq[i])
         THEN <<seq[i]>> \o FirstSeen(seq, i + 1)
         ELSE FirstSeen(seq, i + 1)

\* the sources of the add calls from position i on whose value equals v
RECURSIVE SourcesOf(_, _)
SourcesOf(v, i) ==
    IF i > Len(added) THEN <<>>
    ELSE IF PyEq(added[i].value, v)
         THEN <<added[i].source>> \o SourcesOf(v, i + 1)
         ELSE SourcesOf(v, i + 1)

\* C2: after any sequence of add calls on a fresh Claims object, values()
\* is the sequence of the distinct non-empty values added, in the order in
\* which they were first added; it holds no None, no empty string and no
\* empty collection, and an added 0 or False is in it.
C2_ValuesFirstSeen ==
    LET vals == Claims_values(_list)
    IN /\ vals = FirstSeen(AddedValues, 1)
       /\ \A i \in 1..Len(vals) : ~IsEmptyValue(vals[i])
       /\ \A i \in 1..Len(added) :
            added[i].value \in {PyInt(0), PyBool(FALSE)}
                => \E k \in 1..Len(vals) : PyEq(vals[k], added[i].value)

C2_Witness ==
    /\ Len(added) = 3
    /\ added[1].value = PyNone
    /\ added[2].value = PyBool(FALSE)
    /\ added[3].value = PyStrV("1.0")
    /\ Claims_values(_list) = <<PyBool(FALSE), PyStrV("1.0")>>

\* C3: after any sequence of add calls on a fresh Claims object no two
\* entries hold equal values, and the source list of every entry is the
\* sources of the add calls made with that value, in call order.
C3_OneEntryPerValue ==
    /\ \A i, j \in 1..Len(_list) :
            PyEq(_list[i].value, _list[j].value) => i = j
    /\ \A i \in 1..Len(_list) :
            _list[i].sources = SourcesOf(_list[i].value, 1)
    /\ \A i \in 1..Len(added) :
            ~IsEmptyValue(added[i].value)
                => \E k \in 1..Len(_list) : PyEq(_list[k].value, added[i].value)

C3_Witness ==
    /\ Len(added) = 3
    /\ added[1] = [value |-> PyInt(0), source |-> "A"]
    /\ added[2] = [value |-> PyStrV("1.0"), source |-> "A"]
    /\ added[3] = [value |-> PyBool(FALSE), source |-> "B"]
    /\ _list = << [value |-> PyInt(0), sources |-> <<"A", "B">>],
                  [value |-> PyStrV("1.0"), sources |-> <<"A">>] >>

-----------------------------------------------------------------------------
(* Properties of ClaimsDict (SpecDict). *)

\* the Claim Set after the i-th update call
After(i) == IF i = Len(calls) THEN _data ELSE calls[i + 1].before

\* every key of the mapping is in the enumeration
IsValid(data) == \A key \in DOMAIN data : key \in KeySet

\* the values the sources report for key
Reported(d, key) == {d[i].data[key] : i \in {j \in 1..Len(d) : key \in DOMAIN d[j].data}}

ReportedKeys(d) == UNION {DOMAIN d[i].data : i \in 1..Len(d)}

\* C4: an update whose mapping has a key outside the enumeration fails and
\* leaves the Claim Set as it was: nothing is merged, no bucket changes and
\* no source is registered.
C4_RejectedUpdateChangesNothing ==
    \A i \in 1..Len(calls) :
        ~IsValid(calls[i].data)
            => /\ calls[i].raised
               /\ After(i) = calls[i].before

C4_Witness ==
    \E i \in 1..Len(calls) :
        /\ calls[i].data = ("version" :> PyStrV("1.0")) @@ ("bogus" :> PyStrV("x"))
        /\ calls[i].raised
        /\ calls[i].before # <<>>
        /\ ~HasSource(calls[i].before, calls[i].source)
        /\ After(i) = calls[i].before

\* C5: of two valid updates of one source (no valid update of that source
\* between them) the second replaces the source's value of every key that
\* is in both mappings, keeps the source's value of every key that is in
\* the first alone, and changes no other source's bucket.
C5_SecondUpdateOverwritesOwnKeys ==
    \A i, j \in 1..Len(calls) :
        ( /\ i < j
          /\ calls[i].source = calls[j].source
          /\ IsValid(calls[i].data) /\ IsValid(calls[j].data)
          /\ \A k \in (i + 1)..(j - 1) :
                ~(calls[k].source = calls[i].source /\ IsValid(calls[k].data)) )
        => LET s == calls[j].source
               first == calls[i].data
               second == calls[j].data
               bucket == Bucket(After(j), s)
           IN /\ ~calls[j].raised
              /\ \A k \in DOMAIN second : k \in DOMAIN bucket /\ bucket[k] = second[k]
              /\ \A k \in (DOMAIN first) \ (DOMAIN second) :
                    k \in DOMAIN bucket /\ bucket[k] = first[k]
              /\ \A t \in DictSources \ {s} :
                    /\ HasSource(After(j), t) = HasSource(calls[j].before, t)
                    /\ Bucket(After(j), t) = Bucket(calls[j].before, t)

C5_Witness ==
    /\ Len(calls) = 3
    /\ calls[1].source = "A"
    /\ calls[1].data = ("version" :> PyStrV("1.0")) @@ ("stargazers_count" :> PyInt(0))
    /\ calls[2].source = "B"
    /\ calls[2].data = ("stargazers_count" :> PyInt(0))
    /\ calls[3].source = "A"
    /\ calls[3].data = ("stargazers_count" :> PyBool(FALSE))
    /\ Bucket(_data, "A") =
          ("version" :> PyStrV("1.0")) @@ ("stargazers_count" :> PyBool(FALSE))
    /\ Bucket(_data, "B") = ("stargazers_count" :> PyInt(0))

\* the Claim Set when the calls i and i + 1 are made in the other order
Swapped(i) ==
    LET one == ClaimsDict_update(calls[i].before, PyDict(calls[i + 1].data),
                                 calls[i + 1].source)
    IN ClaimsDict_update(one._data, PyDict(calls[i].data), calls[i].source)._data

\* two Claims with the same values, each with the same set of sources
SameContent(l1, l2) ==
    LET covers(a, b) ==
            \A i \in 1..Len(a) : \E j \in 1..Len(b) :
                /\ PyEq(a[i].value, b[j].value)
                /\ Range(a[i].sources) = Range(b[j].sources)
    IN covers(l1, l2) /\ covers(l2, l1)

\* C8: two valid updates of distinct sources give, in either order, Claim
\* Sets whose Claim for every key has the same values, each with the same
\* set of sources.  (Stated of the last two calls: every earlier pair is
\* the last pair of an earlier state.)
C8_UpdatesCommute ==
    LET i == Len(calls) - 1
    IN ( /\ i >= 1
         /\ calls[i].source # calls[i + 1].source
         /\ IsValid(calls[i].data) /\ IsValid(calls[i + 1].data) )
       => /\ ReportedKeys(_data) = ReportedKeys(Swapped(i))
          /\ Registered(_data) = Registered(Swapped(i))
          /\ \A key \in KeySet :
                key \in ReportedKeys(_data)
                    => SameContent(ClaimsDict_getitem(_data, key).claims,
                                   ClaimsDict_getitem(Swapped(i), key).claims)

\* the two orders give the same content in another order of entries and of
\* sources, and under another of the equal values
C8_Witness ==
    /\ Len(calls) = 2
    /\ calls[1].source = "A"
    /\ calls[1].data = ("stargazers_count" :> PyInt(0))
    /\ calls[2].source = "B"
    /\ calls[2].data = ("stargazers_count" :> PyBool(FALSE))
    /\ ClaimsDict_getitem(_data, "stargazers_count").claims
          = << [value |-> PyInt(0), sources |-> <<"A", "B">>] >>
    /\ ClaimsDict_getitem(Swapped(1), "stargazers_count").claims
          = << [value |-> PyBool(FALSE), sources |-> <<"B", "A">>] >>

\* the lines of the full report with sources, and those of the report over
\* the enumeration without key
FullLines(d) == format_lines(d, KEYS, 0, TRUE)
LinesWithout(d, key) ==
    format_lines(d, SelectSeq(KEYS, LAMBDA k : k # key), 0, TRUE)

\* C9: a key for which a source reports 0 or False has that value recorded
\* with the source, and the full report with sources has a line for the key;
\* a key for which every source reports None or the empty string has nothing
\* recorded and no line.
C9_ZeroKeptEmptyDropped ==
    /\ \A key \in ReportedKeys(_data) \cap KeySet :
        LET c == ClaimsDict_getitem(_data, key).claims
            lines == FullLines(_data)
        IN /\ \A i \in 1..Len(_data) :
                ( /\ key \in DOMAIN _data[i].data
                  /\ _data[i].data[key] \in {PyInt(0), PyBool(FALSE)} )
                => /\ \E k \in 1..Len(c) :
                        /\ PyEq(c[k].value, PyInt(0))
                        /\ _data[i].source \in Range(c[k].sources)
                   /\ (key \o ": " \o Claims_format(c, TRUE)) \in Range(lines)
                   /\ Len(lines) = Len(LinesWithout(_data, key)) + 1
           /\ Reported(_data, key) \subseteq {PyNone, PyStrV("")}
                => /\ c = <<>>
                   /\ lines = LinesWithout(_data, key)
    /\ \A s \in DictSources :
        _data = << [source |-> s, data |-> ("stargazers_count" :> PyInt(0))] >>
            => ClaimsDict_format(_data, FALSE, 0, TRUE)
                  = "stargazers_count: 0 (" \o s \o ")"

C9_Witness ==
    /\ Len(_data) = 2
    /\ _data[1] = [source |-> "A",
                   data |-> ("version" :> PyNone) @@ ("stargazers_count" :> PyInt(0))]
    /\ _data[2] = [source |-> "B",
                   data |-> ("version" :> PyStrV("")) @@ ("stargazers_count" :> PyBool(FALSE))]
    /\ ClaimsDict_format(_data, FALSE, 0, TRUE) = "stargazers_count: 0 (A, B)"

-----------------------------------------------------------------------------
(* Properties of the fetch (Spec). *)

\* the sources of p whose adapter returned a mapping that update accepts
Succeeded(p) ==
    { s \in projects_config[p] :
        /\ task[p][s] = "done"
        /\ ~outcome[p][s].raises
        /\ outcome[p][s].data.t = "dict"
        /\ IsValid(outcome[p][s].data.items) }

\* C1: whatever adapters fail, no exception leaves get_source or
\* get_project, every configured adapter has run to its end when
\* get_project returns, the Claim Set returned holds exactly the mappings
\* of the sources that succeeded, and a get_source that has not begun is
\* still in the event loop's queue.
C1_FailuresIsolated ==
    /\ mainpc # "crashed"
    /\ \A p \in DOMAIN pc :
        /\ pc[p] # "raised"
        /\ \A s \in SourceSet : task[p][s] # "raised"
        /\ pc[p] = "returned"
            => /\ \A s \in projects_config[p] : task[p][s] = "done"
               /\ Registered(claims[p]) = Succeeded(p)
               /\ \A s \in Succeeded(p) :
                    Bucket(claims[p], s) = outcome[p][s].data.items
    /\ \A p \in DOMAIN pc : \A s \in SourceSet :
            task[p][s] = "scheduled"
                => \E i \in 1..Len(ready) : ready[i] = SourceTask(p, s)

C1_Witness ==
    /\ mainpc = "done"
    /\ projects_config["foo"] = {"github", "npm"}
    /\ outcome["foo"]["github"].raises
    /\ outcome["foo"]["npm"] = [raises |-> FALSE,
                                data |-> PyDict("name" :> PyStrV("foo"))]
    /\ claims["foo"] = << [source |-> "npm", data |-> ("name" :> PyStrV("foo"))] >>
    /\ Len(log) = 1 /\ log[1].key = "github"

\* the position of the project key in the report, and its printed report
KeyIndex(p) == CHOOSE i \in 1..Len(ProjectKeys) : ProjectKeys[i] = p
IsPrinted(p) == Len(printed) >= KeyIndex(p)

\* the report main prints for p when its only line is line (indent=2)
ReportOf(p, line) == p \o "\n" \o "  " \o line \o "\n"

Returned(p, s, report) ==
    /\ task[p][s] = "done"
    /\ outcome[p][s] = [raises |-> FALSE, data |-> PyDict(report)]

\* s finished before t
FinishedBefore(p, s, t) ==
    \E i, j \in 1..Len(finished) :
        /\ i < j
        /\ finished[i] = SourceTask(p, s)
        /\ finished[j] = SourceTask(p, t)

\* position of a source kind in SOURCES
SourceIndexOf(s) == CHOOSE i \in 1..Len(SOURCES) : SOURCES[i] = s

V1 == "version" :> PyStrV("1.0")
V2 == "version" :> PyStrV("2.0")

\* C6 as claimed: two sources A, B (A before B in SOURCES) that both report
\* version 1.0 give the line "version: 1.0 (A, B)" in every execution.
C6_Original ==
    \A p \in DOMAIN pc : \A a, b \in SourceSet :
        ( /\ projects_config[p] = {a, b}
          /\ SourceIndexOf(a) < SourceIndexOf(b)
          /\ IsPrinted(p) /\ args.show_sources
          /\ Returned(p, a, V1) /\ Returned(p, b, V1) )
        => printed[KeyIndex(p)]
              = ReportOf(p, "version: 1.0 (" \o a \o ", " \o b \o ")")

\* C6 amended: the two sources are listed in the order in which their
\* adapters ended.
C6_SourcesInCompletionOrder ==
    \A p \in DOMAIN pc : \A x, y \in SourceSet :
        ( /\ projects_config[p] = {x, y}
          /\ FinishedBefore(p, x, y)
          /\ IsPrinted(p) /\ args.show_sources
          /\ Returned(p, x, V1) /\ Returned(p, y, V1) )
        => printed[KeyIndex(p)]
              = ReportOf(p, "version: 1.0 (" \o x \o ", " \o y \o ")")

C6_Witness ==
    /\ projects_config["foo"] = {"github", "npm"}
    /\ Returned("foo", "github", V1) /\ Returned("foo", "npm", V1)
    /\ FinishedBefore("foo", "npm", "github")
    /\ args.show_sources
    /\ IsPrinted("foo")
    /\ printed[1] = "foo\n  version: 1.0 (npm, github)\n"

\* C7 as claimed: A reports version 1.0 and B version 2.0 (A before B in
\* SOURCES): the line is "version: 1.0 (A); 2.0 (B)" in every execution.
C7_Original ==
    \A p \in DOMAIN pc : \A a, b \in SourceSet :
        ( /\ projects_config[p] = {a, b}
          /\ SourceIndexOf(a) < SourceIndexOf(b)
          /\ IsPrinted(p) /\ args.show_sources
          /\ Returned(p, a, V1) /\ Returned(p, b, V2) )
        => printed[KeyIndex(p)]
              = ReportOf(p, "version: 1.0 (" \o a \o "); 2.0 (" \o b \o ")")

\* C7 amended: the two values are listed, each with its source, in the
\* order in which the adapters ended.
C7_ValuesInCompletionOrder ==
    \A p \in DOMAIN pc : \A x, y \in SourceSet : \A rx, ry \in {V1, V2} :
        ( /\ projects_config[p] = {x, y}
          /\ rx # ry
          /\ FinishedBefore(p, x, y)
          /\ IsPrinted(p) /\ args.show_sources
          /\ Returned(p, x, rx) /\ Returned(p, y, ry) )
        => printed[KeyIndex(p)]
              = ReportOf(p, "version: " \o rx["version"].s \o " (" \o x \o "); "
                                \o ry["version"].s \o " (" \o y \o ")")

C7_Witness ==
    /\ projects_config["foo"] = {"github", "npm"}
    /\ Returned("foo", "github", V1) /\ Returned("foo", "npm", V2)
    /\ FinishedBefore("foo", "npm", "github")
    /\ args.show_sources
    /\ IsPrinted("foo")
    /\ printed[1] = "foo\n  version: 2.0 (npm); 1.0 (github)\n"

\* C10, in every state: a Claim Set is empty until the first adapter of its
\* project has ended; update has been called once for every source whose
\* adapter has returned and never for another source; the registered
\* sources are among those.
C10_State ==
    \A p \in DOMAIN pc :
        /\ (\A s \in SourceSet : task[p][s] \in {"none", "scheduled", "waiting"})
                => claims[p] = <<>>
        /\ \A s \in SourceSet :
                updates[p][s] = IF /\ s \in projects_config[p]
                                   /\ task[p][s] = "done"
                                   /\ ~outcome[p][s].raises
                                THEN 1 ELSE 0
        /\ Registered(claims[p]) \subseteq {s \in SourceSet : updates[p][s] = 1}

\* C10, in every step: the Claim Set of a project whose get_project has
\* returned is not updated, and printing a report changes no Claim Set.
C10_Step ==
    /\ \A p \in DOMAIN pc :
            pc[p] = "returned"
                => claims'[p] = claims[p] /\ updates'[p] = updates[p]
    /\ printed' # printed => claims' = claims

\* C10: in every execution a project's Claim Set is empty when its fetch
\* begins, update is called on it once for each source whose adapter
\* returned and never for a source whose adapter raised, it is not updated
\* once get_project has returned, and printing it does not change it.
C10_ClaimSetLifecycle == []C10_State /\ [][C10_Step]_vars

C10_Witness ==
    /\ mainpc = "done"
    /\ projects_config["foo"] = {"github", "npm"}
    /\ outcome["foo"]["github"].raises
    /\ Returned("foo", "npm", V1)
    /\ updates["foo"]["github"] = 0
    /\ updates["foo"]["npm"] = 1
    /\ Len(printed) = Len(ProjectKeys)

\* the adapter of s has begun and has no outcome yet
InFlight(p, s) == task[p][s] \in {"scheduled", "waiting"}

\* the failure of the adapter of s for p is in the log
Logged(p, s) ==
    \E i \in 1..Len(log) : log[i].key = s /\ log[i].source = Identifier[p]

\* C11: once get_project waits, a get_source task exists for every source
\* the project configures (none is held back until another has ended);
\* get_project has returned only when every one of them has its outcome,
\* merged into the Claim Set or logged; and main prints a report only when
\* no adapter is in flight.
C11_StartAllThenJoin ==
    /\ \A p \in DOMAIN pc :
        /\ pc[p] = "created"
            => \A s \in SourceSet : task[p][s] = "none"
        /\ pc[p] # "created"
            => \A s \in SourceSet :
                    (task[p][s] # "none") = (s \in projects_config[p])
        /\ pc[p] = "returned"
            => \A s \in projects_config[p] :
                    /\ task[p][s] = "done"
                    /\ (s \in Registered(claims[p])) # Logged(p, s)
    /\ (mainpc \in {"sorting", "printing", "done"} \/ printed # <<>>)
        => \A p \in DOMAIN pc : \A s \in SourceSet : ~InFlight(p, s)

\* both adapters of foo were in flight together (npm, started second, ended
\* first), one was merged and one logged, and the report is printed
C11_Witness ==
    /\ projects_config["foo"] = {"github", "npm"}
    /\ pc["foo"] = "returned"
    /\ FinishedBefore("foo", "npm", "github")
    /\ Logged("foo", "npm") /\ "github" \in Registered(claims["foo"])
    /\ printed # <<>>

\* the adapter invocation of s for p has ended in a failure: the adapter
\* raised, or update rejected what it returned
Failed(p, s) ==
    /\ s \in projects_config[p]
    /\ task[p][s] = "done"
    /\ s \notin Succeeded(p)

\* the log records written for the invocation of s for p
RecordsOf(p, s) ==
    {i \in 1..Len(log) : log[i].key = s /\ log[i].source = Identifier[p]}

\* what a log record carries: the arguments of its message
Carries(rec) == {rec.key, rec.source, rec.error}

\* C12: every failed adapter invocation has exactly one error record, and
\* that record carries the project key, the source kind and the error
\* detail.
C12_OneRecordWithProjectKey ==
    \A p \in DOMAIN pc : \A s \in SourceSet :
        Failed(p, s)
            => /\ Cardinality(RecordsOf(p, s)) = 1
               /\ \A i \in RecordsOf(p, s) :
                    /\ p \in Carries(log[i])
                    /\ s \in Carries(log[i])
                    /\ log[i].error \in {"Exception", "KeyError", "TypeError"}

\* the Claim Set made of the mappings that the adapters of p alone have
\* returned, merged in the order in which they ended (from position i of
\* finished on, into d)
RECURSIVE OwnContributions(_, _, _)
OwnContributions(p, i, d) ==
    IF i > Len(finished) THEN d
    ELSE LET s == finished[i].s
         IN OwnContributions(p, i + 1,
                IF finished[i].p = p /\ ~outcome[p][s].raises
                THEN ClaimsDict_update(d, outcome[p][s].data, s)._data
                ELSE d)

\* C13, in every state: a project's Claim Set holds the contributions of
\* its own adapters and nothing else; once get_projects has returned, the
\* mapping has one entry for every configured project key, the Claim Set
\* of that project, whatever adapters of any project have failed.
C13_State ==
    /\ \A p \in DOMAIN pc :
        /\ claims[p] = OwnContributions(p, 1, <<>>)
        /\ Registered(claims[p]) \subseteq projects_config[p]
    /\ mainpc \in {"sorting", "printing", "done"}
        => /\ DOMAIN projects = DOMAIN projects_config
           /\ \A k \in DOMAIN projects : projects[k] = k

\* C13, in every step: a step in which no adapter of a project ends leaves
\* that project's Claim Set as it is.
C13_Step ==
    \A q \in DOMAIN pc : task'[q] = task[q] => claims'[q] = claims[q]

\* C13: get_projects returns one entry per configured project key, each
\* Claim Set holds only the contributions of its own project's adapters,
\* and an adapter failure in one project changes neither the presence nor
\* the content of another project's entry.
C13_ProjectsIndependent == []C13_State /\ [][C13_Step]_vars

\* the adapter of Bar fails, before that of foo ends: foo's entry holds its
\* own version and Bar's entry is there, empty
C13_Witness ==
    /\ mainpc = "done"
    /\ projects_config = ("foo" :> {"github"}) @@ ("Bar" :> {"github"})
    /\ outcome["Bar"]["github"].raises
    /\ finished = <<SourceTask("Bar", "github"), SourceTask("foo", "github")>>
    /\ Returned("foo", "github", V1)
    /\ DOMAIN projects = {"foo", "Bar"}
    /\ claims[projects["foo"]] = << [source |-> "github", data |-> V1] >>
    /\ claims[projects["Bar"]] = <<>>

\* some adapter has begun and has not ended
Waiting(p, s) == p \in DOMAIN task /\ task[p][s] = "waiting"

\* C14 as claimed: an adapter that does not end is in the end treated as a
\* failure (its get_source is done, the failure logged), and get_projects
\* returns in every execution.
C14_Original ==
    /\ \A p \in Range(ProjectKeys), s \in SourceSet :
            Waiting(p, s) ~> (task[p][s] = "done")
    /\ <>(mainpc # "fetching")

NoneWaiting == \A p \in Range(ProjectKeys), s \in SourceSet : ~Waiting(p, s)

\* C14 amended: no adapter invocation has a timeout.  While an adapter has
\* not ended nothing is logged for it, its get_project has not returned
\* and get_projects has not returned; when no adapter goes on waiting for
\* ever, get_projects returns.
C14_NoTimeout ==
    /\ [](\A p \in Range(ProjectKeys), s \in SourceSet :
            Waiting(p, s) => /\ ~Logged(p, s)
                             /\ pc[p] = "gathering"
                             /\ mainpc = "fetching")
    /\ []<>NoneWaiting => <>(mainpc # "fetching")

\* the adapter of github is all that has not ended: nothing is ready, and
\* the run waits
C14_Witness ==
    /\ projects_config = ("foo" :> {"github", "npm"}) @@ ("Bar" :> {})
    /\ Waiting("foo", "github")
    /\ task["foo"]["npm"] = "done"
    /\ pc["Bar"] = "returned"
    /\ ready = <<>>
    /\ mainpc = "fetching"

-----------------------------------------------------------------------------
(* Properties of main with its options (SpecMain). *)

\* get_projects has returned and main goes on
Fetched == mainpc \in {"sorting", "printing", "done", "crashed"}
             /\ DOMAIN projects # {}

\* the Claim of project key k for the sort key
SortClaim(k) == ClaimsDict_getitem(claims[projects[k]], args.sort.key).claims

\* C15: for every sort key of the enumeration any two projects' Claims for
\* the key are comparable (a < b, b < a, or equal values()), so the sort
\* ends; the keys then stand in the lexicographic order of the values() of
\* their Claims, and a project whose Claim is empty stands before every
\* project whose Claim is not.
C15_SortIsTotalOrder ==
    (args.sort.given /\ args.sort.key \in KeySet /\ Fetched)
    => /\ \A a, b \in DOMAIN projects :
            LET ab == Claims_lt(SortClaim(a), SortClaim(b))
                ba == Claims_lt(SortClaim(b), SortClaim(a))
            IN /\ ~ab.raised
               /\ ~(ab.lt /\ ba.lt)
               /\ (~ab.lt /\ ~ba.lt)
                    => \A i \in 1..Len(SortClaim(a)) :
                            /\ i <= Len(SortClaim(b))
                            /\ PyEq(SortClaim(a)[i].value, SortClaim(b)[i].value)
       /\ mainpc # "crashed"
       /\ mainpc \in {"printing", "done"}
            => \A i, j \in 1..Len(main_keys) :
                    i < j => /\ ~Claims_lt(SortClaim(main_keys[j]),
                                           SortClaim(main_keys[i])).lt
                             /\ SortClaim(main_keys[j]) = <<>>
                                    => SortClaim(main_keys[i]) = <<>>

-----------------------------------------------------------------------------
(* Properties of ClaimsDict.format (SpecStore). *)

\* the positions, among the first n keys of the enumeration, of the keys
\* whose Claim has an entry
NonEmptyKeys(d, n) ==
    {i \in 1..n : ClaimsDict_getitem(d, KEYS[i]).claims # <<>>}

\* the lines "key: formatted-claim" of the keys at the positions S, each
\* behind indent spaces, in the order of the enumeration, with a newline
\* between two lines
RECURSIVE ReportText(_, _, _, _)
ReportText(d, S, indent, show_sources) ==
    IF S = {} THEN ""
    ELSE LET i == CHOOSE i \in S : \A j \in S : i <= j
             line == Spaces(indent) \o KEYS[i] \o ": "
                        \o Claims_format(ClaimsDict_getitem(d, KEYS[i]).claims,
                                         show_sources)
         IN IF S = {i} THEN line
            ELSE line \o "\n" \o ReportText(d, S \ {i}, indent, show_sources)

Indents == 0..2

\* C16: format gives one line "key: formatted-claim" behind indent spaces
\* for each key whose Claim is not empty, in the order of the enumeration,
\* joined by newlines; with short only the first 9 keys count; a key whose
\* Claim is empty has no line, and a Claim Set without contributions
\* formats to the empty string.
C16_FormatLines ==
    \A short \in BOOLEAN, indent \in Indents, show_sources \in BOOLEAN :
        LET n == IF short THEN 9 ELSE Len(KEYS)
            text == ClaimsDict_format(_data, short, indent, show_sources)
        IN /\ text = ReportText(_data, NonEmptyKeys(_data, n), indent,
                                show_sources)
           /\ NonEmptyKeys(_data, n) = {} => text = ""

\* version is among the first 9 keys and stargazers_count is not; B's
\* version is empty
C16_Witness ==
    /\ _data = << [source |-> "A",
                   data |-> ("version" :> PyStrV("1.0"))
                            @@ ("stargazers_count" :> PyInt(0))],
                  [source |-> "B", data |-> ("version" :> PyStrV(""))] >>
    /\ ClaimsDict_format(_data, FALSE, 2, TRUE)
            = "  version: 1.0 (A)\n  stargazers_count: 0 (A)"
    /\ ClaimsDict_format(_data, TRUE, 0, FALSE) = "version: 1.0"

\* the letters of the model, small and capital
Small == <<"a", "b", "f", "o", "r", "x">>
Capital == <<"A", "B", "F", "O", "R", "X">>

\* the same character, or the same letter in another case
SameLetter(a, b) ==
    \/ a = b
    \/ \E i \in 1..Len(Small) : {a, b} = {Small[i], Capital[i]}

\* q is, but for case, a substring of k
ContainsIgnoringCase(q, k) ==
    \E at \in 0..(Len(k) - Len(q)) :
        \A j \in 1..Len(q) : SameLetter(q[j], k[at + j])

\* the configured keys that match the query, in the configuration's order
Matching ==
    SelectSeq(ProjectKeys,
        LAMBDA k : ~args.query.given
                   \/ ContainsIgnoringCase(args.query.text, Characters[k]))

\* what main prints for project key k when no sort key is given
TextOf(k) ==
    IF args.list THEN k
    ELSE k \o "\n"
           \o ClaimsDict_format(claims[k], args.short, 2, args.show_sources)
           \o "\n"

\* C17: without a sort key main prints the configured keys that contain
\* the query as a substring, case ignored (all keys without a query), in
\* the order of the configuration, and nothing else; with a query that no
\* key matches it prints nothing, nothing is fetched, and main does not
\* end in an exception.
C17_PrintsMatchingInConfigOrder ==
    ~args.sort.given
    => /\ mainpc # "crashed"
       /\ Len(printed) <= Len(Matching)
       /\ \A i \in 1..Len(printed) : printed[i] = TextOf(Matching[i])
       /\ mainpc = "done" => Len(printed) = Len(Matching)
       /\ Matching = <<>>
            => /\ printed = <<>>
               /\ DOMAIN pc = {} /\ ready = <<>> /\ log = <<>>
               /\ mainpc \in {"fetching", "sorting", "done"}

\* the query BA selects Bar alone
C17_Witness ==
    /\ mainpc = "done"
    /\ args.query = Query(<<"B", "A">>)
    /\ args.list /\ ~args.sort.given
    /\ printed = <<"Bar">>

-----------------------------------------------------------------------------
(* Properties of the enumeration of keys (SpecKeys). *)

\* the names of the enumeration as the specification lists them
Enumeration ==
    {"name", "description", "version", "homepage", "created", "updated",
     "license", "language", "tests", "commit_count", "file_count",
     "unstaged_changes", "uncommitted_changes", "up_to_date", "contributors",
     "downloads", "open_issues", "open_pull_requests", "forks_count",
     "stargazers_count", "subscribers_count", "watchers_count",
     "cheesecake_index"}

\* C18: update with a mapping keyed by a name of the enumeration succeeds
\* and records the value, and update with any other key fails.
C18_KeysAreTheEnumeration ==
    \A i \in 1..Len(calls) :
        LET key == CHOOSE k \in DOMAIN calls[i].data : TRUE
        IN IF key \in Enumeration
           THEN /\ ~calls[i].raised
                /\ key \in DOMAIN Bucket(After(i), calls[i].source)
           ELSE /\ calls[i].raised
                /\ After(i) = calls[i].before

-----------------------------------------------------------------------------
(* Properties of the cache in front of get_npm (SpecCache). *)

\* what the cache holds for a package as an outcome of get_npm
Stored(name) == [raises |-> FALSE, data |-> cache[name].value]

\* a live entry holds what npm view does for the package now
Fresh(name) == Live(cache, now, name) => registry[name] = Stored(name)

\* C19 (as stated): for every sequence of fetches and of answers of the
\* external source, the Claim Set produced with the cache equals the Claim
\* Set produced when the fetch goes to the external source.
C19_Original == cached_claims = direct_claims

\* C19: an entry lives at most npm_ttl seconds; a fetch for which no live
\* entry differs from what the external source answers now produces the
\* same Claim Set with the cache as without, and any other fetch produces
\* the Claim Set of the answer that was stored.
C19_CacheServesStoredAnswer ==
    /\ [](\A name \in DOMAIN cache :
            now < cache[name].expires /\ cache[name].expires <= now + npm_ttl)
    /\ [][\A p \in Range(ProjectKeys), keeps_none \in BOOLEAN :
            FetchNpm(p, keeps_none)
            => IF Fresh(Identifier[p])
               THEN cached_claims' = direct_claims'
               ELSE cached_claims' = ClaimSetOf(p, Stored(Identifier[p]))]_vars

C19_Witness ==
    /\ last_fetch.hit
    /\ now > 0
    /\ cached_claims # <<>>
    /\ cached_claims = direct_claims

-----------------------------------------------------------------------------
(* Properties of the scan order of ClaimsDict.__getitem__ (SpecOrder). *)

\* the sources in the order of their first update call that was accepted
RECURSIVE FirstRegistered(_)
FirstRegistered(n) ==
    IF n = 0 THEN <<>>
    ELSE LET before == FirstRegistered(n - 1)
         IN IF calls[n].raised \/ calls[n].source \in Range(before)
            THEN before
            ELSE Append(before, calls[n].source)

\* the place of a source in that order
Place(source) ==
    LET order == FirstRegistered(Len(calls))
    IN CHOOSE i \in 1..Len(order) : order[i] = source

\* the last value a source has reported for key, if it has reported one
RECURSIVE LastReport(_, _, _)
LastReport(n, source, key) ==
    IF n = 0 THEN PyNone
    ELSE IF /\ ~calls[n].raised
            /\ calls[n].source = source
            /\ key \in DOMAIN calls[n].data
         THEN calls[n].data[key]
         ELSE LastReport(n - 1, source, key)

\* C20: the Claim returned for a key lists its entries, and the sources
\* inside each entry, in the order in which the sources were first registered
\* by update; a later update from a registered source changes the values of
\* the source and not its place in the scan.
C20_ScanInRegistrationOrder ==
    /\ [i \in 1..Len(_data) |-> _data[i].source] = FirstRegistered(Len(calls))
    /\ \A key \in {"version", "name"} :
        LET claim == ClaimsDict_getitem(_data, key).claims
        IN /\ \A e \in 1..Len(claim) :
                /\ claim[e].sources # <<>>
                /\ \A i, j \in 1..Len(claim[e].sources) :
                        i < j => Place(claim[e].sources[i])
                                    < Place(claim[e].sources[j])
                /\ \A i \in 1..Len(claim[e].sources) :
                        PyEq(LastReport(Len(calls), claim[e].sources[i], key),
                             claim[e].value)
           /\ \A e, f \in 1..Len(claim) :
                e < f => Place(claim[e].sources[1]) < Place(claim[f].sources[1])
           /\ \A source \in OrderSources :
                LastReport(Len(calls), source, key) # PyNone
                => \E e \in 1..Len(claim) : source \in Range(claim[e].sources)

C20_Witness ==
    /\ Len(calls) = 3
    /\ calls[1].source = "A" /\ calls[1].data = ("version" :> PyStrV("1.0"))
    /\ calls[2].source = "B" /\ calls[2].data = ("version" :> PyStrV("1.0"))
    /\ calls[3].source = "A" /\ calls[3].data = ("version" :> PyStrV("2.0"))
    /\ ClaimsDict_getitem(_data, "version").claims
         = << [value |-> PyStrV("2.0"), sources |-> <<"A">>],
              [value |-> PyStrV("1.0"), sources |-> <<"B">>] >>

-----------------------------------------------------------------------------
(* Properties of a mapping with a key outside the enumeration (Spec). *)

\* the adapter of s for p has returned a mapping with a key outside KEYS
\* and its get_source has ended
Rejected(p, s) ==
    /\ s \in projects_config[p]
    /\ task[p][s] = "done"
    /\ ~outcome[p][s].raises
    /\ outcome[p][s].data.t = "dict"
    /\ \E key \in DOMAIN outcome[p][s].data.items : key \notin KeySet

\* C21, in every state: a source whose mapping has a key outside the
\* enumeration has no bucket in the Claim Set, the mappings of the other
\* sources of the project are in it as returned, the log has one record for
\* the source, a KeyError, and neither its task, its get_project nor main has
\* ended in an exception.
C21_State ==
    \A p \in DOMAIN pc : \A s \in SourceSet :
        Rejected(p, s)
        => /\ ~HasSource(claims[p], s)
           /\ \A i \in 1..Len(claims[p]) :
                \A key \in DOMAIN claims[p][i].data :
                    claims[p][i].source # s /\ key \in KeySet
           /\ \A t \in projects_config[p] \ {s} :
                (task[p][t] = "done" /\ t \in Succeeded(p))
                => Bucket(claims[p], t) = outcome[p][t].data.items
           /\ Cardinality(RecordsOf(p, s)) = 1
           /\ \A i \in RecordsOf(p, s) : log[i].error = "KeyError"
           /\ pc[p] # "raised"
           /\ mainpc # "crashed"

\* C21, in every step: the step in which such a mapping is rejected leaves
\* the Claim Set of the project as it is, adds one record to the log, and
\* takes nothing from the event loop's queue but the task itself.
C21_Step ==
    \A p \in DOMAIN pc : \A s \in SourceSet :
        (~Rejected(p, s) /\ Rejected(p, s)')
        => /\ claims'[p] = claims[p]
           /\ Len(log') = Len(log) + 1
           /\ \A i \in 1..Len(ready) :
                ready[i] # SourceTask(p, s)
                => \E j \in 1..Len(ready') : ready'[j] = ready[i]

\* C21: if an adapter succeeds but its mapping contains a key outside the
\* enumeration, get_source merges none of that mapping's keys, the
\* contributions of the project's other sources are merged unchanged, the
\* violation is handled like any other failure of that source, and the run
\* continues.
C21_RejectedMappingIsAFailure == []C21_State /\ [][C21_Step]_vars

\* github returns a version and a key outside KEYS, npm a name: the report
\* of foo holds the name alone
C21_Witness ==
    /\ mainpc = "done"
    /\ projects_config["foo"] = {"github", "npm"}
    /\ outcome["foo"]["github"]
         = [raises |-> FALSE,
            data |-> PyDict(("version" :> PyStrV("1.0"))
                            @@ ("bogus" :> PyStrV("x")))]
    /\ outcome["foo"]["npm"] = [raises |-> FALSE,
                                data |-> PyDict("name" :> PyStrV("foo"))]
    /\ claims["foo"] = << [source |-> "npm", data |-> ("name" :> PyStrV("foo"))] >>
    /\ Len(log) = 1 /\ log[1].key = "github" /\ log[1].error = "KeyError"
    /\ Len(printed) = Len(ProjectKeys)

-----------------------------------------------------------------------------
(* Properties of a subprocess that exits with a non-zero status
   (SpecSubprocess). *)

\* the subprocess of the bower or npm adapter of p has exited with a non-zero
\* status and get_source has ended: get_npm has returned None, get_bower
\* what it makes of the None of get_bower_info
ExitedNonZero(p, s) ==
    /\ s \in projects_config[p] \cap {"bower", "npm"}
    /\ task[p][s] \in {"done", "raised"}
    /\ outcome[p][s] = [raises |-> FALSE,
                        data |-> IF s = "npm" THEN NoneData
                                 ELSE get_bower(NoneData)]

\* C22: when the subprocess of the bower or the npm adapter exits with a
\* non-zero status, that source contributes nothing to the project's Claim
\* Set, an error is logged for that source, and nothing propagates past
\* get_source.
C22_NonZeroExitIsLogged ==
    \A p \in DOMAIN pc : \A s \in SourceSet :
        ExitedNonZero(p, s)
        => /\ Bucket(claims[p], s) = EmptyBucket
           /\ RecordsOf(p, s) # {}
           /\ task[p][s] = "done"
           /\ pc[p] # "raised"
           /\ mainpc # "crashed"

-----------------------------------------------------------------------------
(* Properties of the two forms of lookup (SpecLookup). *)

\* some source of d has key in its bucket
Reports(d, key) == \E i \in 1..Len(d) : key \in DOMAIN d[i].data

\* C23, in every state: for a key outside KEYS the index form has failed
\* and the get form has returned the default; for a key of KEYS both forms
\* have returned a Claim, and the empty Claim when no source reports the key.
C23_State ==
    lookup # NoLookup
    => IF lookup.key \notin KeySet
       THEN /\ lookup.form = "index" => lookup.raised
            /\ lookup.form = "get" => ~lookup.raised /\ lookup.isdefault
       ELSE /\ ~lookup.raised
            /\ ~lookup.isdefault
            /\ \A e \in 1..Len(lookup.claims) :
                    lookup.claims[e].sources # <<>>
            /\ ~Reports(lookup.seen, lookup.key) => lookup.claims = <<>>
            /\ lookup.claims # <<>> => Reports(lookup.seen, lookup.key)

\* C23, in every step: a lookup leaves the Claim Set as it is.
C23_Step == lookup' # lookup => _data' = _data /\ lookup'.seen = _data

\* C23: for a key outside the enumeration, indexing a ClaimsDict fails and
\* get(key, default) returns the default, in both cases without changing
\* the Claim Set; for every key inside the enumeration both forms return a
\* Claim (an empty Claim, never the default or an error, when no source
\* reported the key).
C23_LookupForms == []C23_State /\ [][C23_Step]_vars

\* get of a key of KEYS that no source reports, on a Claim Set that is not
\* empty
C23_Witness ==
    /\ lookup.form = "get"
    /\ lookup.key = "name"
    /\ lookup.seen # <<>>
    /\ lookup.seen = _data
    /\ ~lookup.isdefault
    /\ lookup.claims = <<>>

-----------------------------------------------------------------------------
(* Properties of the sources of a Claim (SpecRecord). *)

\* the registered sources whose bucket holds a value for key that is not
\* None, the empty string or the empty collection
Recording(d, key) ==
    { d[i].source : i \in { j \in 1..Len(d) :
                                /\ key \in DOMAIN d[j].data
                                /\ ~IsEmptyValue(d[j].data[key]) } }

\* the sources listed in a Claim
Listed(claim) == UNION { Range(claim[e].sources) : e \in 1..Len(claim) }

\* C24: in every Claim returned by ClaimsDict indexing, each source name
\* appears at most once over all entries of the Claim, every entry has at
\* least one source, and the sources listed are exactly the registered
\* sources whose bucket holds a recordable (non-empty, or 0/False) value for
\* that key.
C24_SourcesOfAClaim ==
    \A key \in {"version", "stargazers_count"} :
        LET claim == ClaimsDict_getitem(_data, key).claims
        IN /\ \A e \in 1..Len(claim) : claim[e].sources # <<>>
           /\ \A e, f \in 1..Len(claim) :
                \A i \in 1..Len(claim[e].sources), j \in 1..Len(claim[f].sources) :
                    claim[e].sources[i] = claim[f].sources[j] => e = f /\ i = j
           /\ Listed(claim) = Recording(_data, key)
           /\ Listed(claim) \subseteq Registered(_data)

\* A and C agree on the version, B has the empty string; A has 0 stars and
\* B False
C24_Witness ==
    /\ Registered(_data) = {"A", "B", "C"}
    /\ "version" \in DOMAIN Bucket(_data, "B")
    /\ Bucket(_data, "B")["version"] = PyStrV("")
    /\ ClaimsDict_getitem(_data, "version").claims
         = << [value |-> PyStrV("1.0"), sources |-> <<"A", "C">>] >>
    /\ Cardinality(Listed(ClaimsDict_getitem(_data, "stargazers_count").claims)) = 2
    /\ Len(ClaimsDict_getitem(_data, "stargazers_count").claims) = 1

====
